---------------------------- MODULE Spec2Model ----------------------------
(***************************************************************************)
(* A model of the keystore package (src/keystore.go): one Store value      *)
(* whose three exported fields are marshalled to, and unmarshalled from, a *)
(* single JSON file.  The file system, the clock and other writers of the  *)
(* file are the environment.                                               *)
(***************************************************************************)
EXTENDS Integers, Sequences, FiniteSets, TLC

VARIABLES
    mem,      \* the Store value: [AuthToken, PrivateKey, CreatedAt]
    file,     \* the keystore file: <<>> (absent) or <<[mode, data]>>
    now,      \* time.Now().Unix()
    ticks,    \* how often the clock has advanced
    res,      \* the call that has just returned: [op, arg, val, key, err];
              \* op names the environment's step when that came last
    okTok,    \* history: <<T, at>> after a SaveToken(T) that returned nil at
              \* time at, with no other party touching the file since
    okKey,    \* history: <<K>> after a SavePrivateKey(K) that returned nil,
              \* with no other party touching the file since
    foreign,  \* history: another writer has written the file
    stale,    \* history: LoadToken has returned ErrTokenExpired on this Store
              \* and since then no SaveToken has returned nil, no other
              \* writer has written the file and the file was not removed
    sole,     \* history: this Store value is the only one that has written
              \* the file it finds, and no read or write of it has failed
    pc,       \* per thread: the statement it is at (concurrent calls)
    call,     \* per thread: the call it runs, [op, arg]
    loc       \* per thread: its locals, [data, val, key, err]

vars == <<mem, file, now, ticks, res, okTok, okKey, foreign, stale, sole,
          pc, call, loc>>
seqVars == <<mem, file, now, ticks, res, okTok, okKey, foreign, stale, sole>>
concVars == <<pc, call, loc>>

---------------------------------------------------------------------------
(* Bounds and inputs *)

MaxTicks == 2

NowStart == 5000

Tokens == {"t1", "t2"}

TokenInputs == Tokens \cup {""}

KeyInputs == {"0A", "1b", "zz"}

Threads == {1, 2}

---------------------------------------------------------------------------
(* Constants and errors of the package *)

DefaultFileMode == 384

TokenExpirySeconds == 3600

ErrNil == "nil"

ErrEmptyToken == "token cannot be empty"

ErrNoKeystore == "no keystore found - please authenticate first"

ErrTokenExpired == "token has expired - please re-authenticate"

ErrInvalidToken == "invalid token found in keystore"

ErrNoPrivateKey == "no private key found in keystore"

ErrInvalidKeyFormat == "invalid private key format"

ErrWrite == "failed to write keystore file"

ErrRead == "failed to read keystore"

ErrParse == "failed to parse keystore"

ErrHex == "invalid hex character or length"

LoadErrors == {ErrNoKeystore, ErrRead, ErrParse}

---------------------------------------------------------------------------
(* The key parser, crypto.HexToECDSA: hex digits of either case decode to  *)
(* the scalar D; a string that is not hex, is of the wrong length or       *)
(* decodes to zero is rejected.  Keys are scaled to one byte.              *)

KeyScalar == ("0a" :> 10) @@ ("0A" :> 10) @@ ("1b" :> 27)

HexToECDSA(h) ==
    IF h \in DOMAIN KeyScalar
    THEN [D |-> KeyScalar[h], err |-> ErrNil]
    ELSE [D |-> 0, err |-> ErrHex]

\* hex.EncodeToString(crypto.FromECDSA(key)): lower-case digits
EncodeHex(D) == CHOOSE h \in {"0a", "1b"} : KeyScalar[h] = D

ToLower(h) == IF h = "0A" THEN "0a" ELSE h

---------------------------------------------------------------------------
(* The Store value and its JSON form *)

EmptyStore == [AuthToken |-> "", PrivateKey |-> "", CreatedAt |-> 0]

\* a file content that is not JSON (also the empty, truncated file)
Malformed == [wellformed |-> FALSE, auth_token |-> <<>>,
              private_key |-> <<>>, created_at |-> <<>>]

\* json.MarshalIndent of the Store: every field is omitempty
Marshal(s) ==
    [wellformed |-> TRUE,
     auth_token |-> IF s.AuthToken = "" THEN <<>> ELSE <<s.AuthToken>>,
     private_key |-> IF s.PrivateKey = "" THEN <<>> ELSE <<s.PrivateKey>>,
     created_at |-> IF s.CreatedAt = 0 THEN <<>> ELSE <<s.CreatedAt>>]

\* json.Unmarshal(data, s): a key the document holds is assigned, a field
\* whose key is missing keeps the value s had; a syntax error assigns nothing
Unmarshal(data, s) ==
    IF ~data.wellformed
    THEN [mem |-> s, err |-> ErrParse]
    ELSE [mem |-> [AuthToken |-> IF data.auth_token = <<>> THEN s.AuthToken
                                 ELSE data.auth_token[1],
                   PrivateKey |-> IF data.private_key = <<>> THEN s.PrivateKey
                                  ELSE data.private_key[1],
                   CreatedAt |-> IF data.created_at = <<>> THEN s.CreatedAt
                                 ELSE data.created_at[1]],
          err |-> ErrNil]

---------------------------------------------------------------------------
(* The file system *)

OwnerCanRead(f) == (f[1].mode \div 256) % 2 = 1

OwnerCanWrite(f) == (f[1].mode \div 128) % 2 = 1

\* os.ReadFile
ReadFile(f) ==
    IF f = <<>> THEN [data |-> Malformed, err |-> "ENOENT"]
    ELSE IF ~OwnerCanRead(f) THEN [data |-> Malformed, err |-> "EACCES"]
    ELSE [data |-> f[1].data, err |-> ErrNil]

\* os.WriteFile: creates the file with perm, or replaces the content of the
\* existing file and keeps its mode
WriteFile(f, data, perm) ==
    IF f = <<>> THEN [file |-> <<[mode |-> perm, data |-> data]>>, err |-> ErrNil]
    ELSE IF ~OwnerCanWrite(f) THEN [file |-> f, err |-> "EACCES"]
    ELSE [file |-> <<[mode |-> f[1].mode, data |-> data]>>, err |-> ErrNil]

---------------------------------------------------------------------------
(* The methods of Store, as functions of the Store value s, the file f and *)
(* the time t; each gives the Store value and the file it leaves and what  *)
(* it returns                                                              *)

Out(s, f, val, key, err) ==
    [mem |-> s, file |-> f, val |-> val, key |-> key, err |-> err]

save(s, f) ==
    LET w == WriteFile(f, Marshal(s), DefaultFileMode)
    IN  [file |-> w.file, err |-> IF w.err = ErrNil THEN ErrNil ELSE ErrWrite]

\* load that takes a missing file for an empty record
load_MissingIsEmpty(s, f) ==
    LET r == ReadFile(f)
    IN  IF r.err = "ENOENT" THEN [mem |-> s, err |-> ErrNil]
        ELSE IF r.err # ErrNil THEN [mem |-> s, err |-> ErrRead]
        ELSE Unmarshal(r.data, s)

load(s, f) ==
    LET r == ReadFile(f)
    IN  IF r.err = "ENOENT" THEN [mem |-> s, err |-> ErrNoKeystore]
        ELSE IF r.err # ErrNil THEN [mem |-> s, err |-> ErrRead]
        ELSE Unmarshal(r.data, s)

\* the comparison with >= for >
Expired_AtThreshold(t, createdAt) == t - createdAt >= TokenExpirySeconds

Expired(t, createdAt) == t - createdAt > TokenExpirySeconds

\* SaveToken that does not stamp the token
SaveToken_NoStamp(s, f, token, t) ==
    IF token = "" THEN Out(s, f, "", 0, ErrEmptyToken)
    ELSE LET s2 == [s EXCEPT !.AuthToken = token]
             w == save(s2, f)
         IN  Out(s2, w.file, "", 0, w.err)

\* SaveToken that assigns the fields before it tests the token
SaveToken_AssignFirst(s, f, token, t) ==
    LET s2 == [s EXCEPT !.AuthToken = token, !.CreatedAt = t]
    IN  IF token = "" THEN Out(s2, f, "", 0, ErrEmptyToken)
        ELSE LET w == save(s2, f)
             IN  Out(s2, w.file, "", 0, w.err)

\* SaveToken that writes the file before it assigns the fields
SaveToken_SaveFirst(s, f, token, t) ==
    IF token = "" THEN Out(s, f, "", 0, ErrEmptyToken)
    ELSE LET w == save(s, f)
             s2 == [s EXCEPT !.AuthToken = token, !.CreatedAt = t]
         IN  Out(s2, w.file, "", 0, w.err)

SaveToken(s, f, token, t) ==
    IF token = "" THEN Out(s, f, "", 0, ErrEmptyToken)
    ELSE LET s2 == [s EXCEPT !.AuthToken = token, !.CreatedAt = t]
             w == save(s2, f)
         IN  Out(s2, w.file, "", 0, w.err)

\* LoadToken that tests the expiry before it tests the token
LoadToken_ExpiryFirst(s, f, t) ==
    LET l == load(s, f)
    IN  IF l.err # ErrNil THEN Out(l.mem, f, "", 0, l.err)
        ELSE IF Expired(t, l.mem.CreatedAt) THEN Out(l.mem, f, "", 0, ErrTokenExpired)
        ELSE IF l.mem.AuthToken = "" THEN Out(l.mem, f, "", 0, ErrInvalidToken)
        ELSE Out(l.mem, f, l.mem.AuthToken, 0, ErrNil)

LoadToken(s, f, t) ==
    LET l == load(s, f)
    IN  IF l.err # ErrNil THEN Out(l.mem, f, "", 0, l.err)
        ELSE IF l.mem.AuthToken = "" THEN Out(l.mem, f, "", 0, ErrInvalidToken)
        ELSE IF Expired(t, l.mem.CreatedAt) THEN Out(l.mem, f, "", 0, ErrTokenExpired)
        ELSE Out(l.mem, f, l.mem.AuthToken, 0, ErrNil)

\* SavePrivateKey that assigns the field before it validates the key
SavePrivateKey_AssignFirst(s, f, privateKeyHex) ==
    LET s2 == [s EXCEPT !.PrivateKey = privateKeyHex]
    IN  IF HexToECDSA(privateKeyHex).err # ErrNil
        THEN Out(s2, f, "", 0, ErrInvalidKeyFormat)
        ELSE LET w == save(s2, f)
             IN  Out(s2, w.file, "", 0, w.err)

\* SavePrivateKey that saves a record holding the key alone
SavePrivateKey_FreshRecord(s, f, privateKeyHex) ==
    IF HexToECDSA(privateKeyHex).err # ErrNil
    THEN Out(s, f, "", 0, ErrInvalidKeyFormat)
    ELSE LET s2 == [EmptyStore EXCEPT !.PrivateKey = privateKeyHex]
             w == save(s2, f)
         IN  Out(s2, w.file, "", 0, w.err)

SavePrivateKey(s, f, privateKeyHex) ==
    IF HexToECDSA(privateKeyHex).err # ErrNil
    THEN Out(s, f, "", 0, ErrInvalidKeyFormat)
    ELSE LET s2 == [s EXCEPT !.PrivateKey = privateKeyHex]
             w == save(s2, f)
         IN  Out(s2, w.file, "", 0, w.err)

\* LoadPrivateKey that validates the token before it returns the key
LoadPrivateKey_NeedsToken(s, f) ==
    LET l == load(s, f)
    IN  IF l.err # ErrNil THEN Out(l.mem, f, "", 0, l.err)
        ELSE IF l.mem.AuthToken = "" THEN Out(l.mem, f, "", 0, ErrInvalidToken)
        ELSE IF l.mem.PrivateKey = "" THEN Out(l.mem, f, "", 0, ErrNoPrivateKey)
        ELSE LET k == HexToECDSA(l.mem.PrivateKey)
             IN  Out(l.mem, f, "", k.D, k.err)

LoadPrivateKey(s, f) ==
    LET l == load(s, f)
    IN  IF l.err # ErrNil THEN Out(l.mem, f, "", 0, l.err)
        ELSE IF l.mem.PrivateKey = "" THEN Out(l.mem, f, "", 0, ErrNoPrivateKey)
        ELSE LET k == HexToECDSA(l.mem.PrivateKey)
             IN  Out(l.mem, f, "", k.D, k.err)

\* GetPrivateKeyHex that returns the key re-encoded by the parser's library
GetPrivateKeyHex_Reencoded(s, f) ==
    LET l == load(s, f)
    IN  IF l.err # ErrNil THEN Out(l.mem, f, "", 0, l.err)
        ELSE IF l.mem.PrivateKey = "" THEN Out(l.mem, f, "", 0, ErrNoPrivateKey)
        ELSE IF HexToECDSA(l.mem.PrivateKey).err # ErrNil
             THEN Out(l.mem, f, l.mem.PrivateKey, 0, ErrNil)
        ELSE Out(l.mem, f, EncodeHex(HexToECDSA(l.mem.PrivateKey).D), 0, ErrNil)

GetPrivateKeyHex(s, f) ==
    LET l == load(s, f)
    IN  IF l.err # ErrNil THEN Out(l.mem, f, "", 0, l.err)
        ELSE IF l.mem.PrivateKey = "" THEN Out(l.mem, f, "", 0, ErrNoPrivateKey)
        ELSE Out(l.mem, f, l.mem.PrivateKey, 0, ErrNil)

---------------------------------------------------------------------------
(* Sequential use: one call at a time *)

Res(op, arg, o) ==
    [op |-> op, arg |-> arg, val |-> o.val, key |-> o.key, err |-> o.err]

NoRes(op) ==
    [op |-> op, arg |-> "", val |-> "", key |-> 0, err |-> ErrNil]

IdlePc == [t \in Threads |-> "idle"]

IdleCall == [t \in Threads |-> [op |-> "", arg |-> ""]]

NoLoc == [data |-> Malformed, val |-> "", key |-> 0, err |-> ErrNil]

IdleLoc == [t \in Threads |-> NoLoc]

Init ==
    /\ mem = EmptyStore
    /\ file = <<>>
    /\ now = NowStart
    /\ ticks = 0
    /\ res = NoRes("NewKeystore")
    /\ okTok = <<>>
    /\ okKey = <<>>
    /\ foreign = FALSE
    /\ stale = FALSE
    /\ sole = TRUE
    /\ pc = IdlePc
    /\ call = IdleCall
    /\ loc = IdleLoc

\* NewKeystore that creates the file with an empty record
NewKeystore_CreatesFile ==
    /\ mem' = EmptyStore
    /\ file' = save(EmptyStore, file).file
    /\ res' = NoRes("NewKeystore")
    /\ okTok' = <<>>
    /\ okKey' = <<>>
    /\ stale' = FALSE
    /\ sole' = (file = <<>>)
    /\ UNCHANGED <<now, ticks, foreign, concVars>>

\* NewKeystore: a fresh Store value on the same path; the file is not touched
NewKeystore ==
    /\ mem' = EmptyStore
    /\ res' = NoRes("NewKeystore")
    /\ okTok' = <<>>
    /\ okKey' = <<>>
    /\ stale' = FALSE
    /\ sole' = (file = <<>>)
    /\ UNCHANGED <<file, now, ticks, foreign, concVars>>

DoSaveToken(token) ==
    LET o == SaveToken(mem, file, token, now)
    IN  /\ mem' = o.mem
        /\ file' = o.file
        /\ res' = Res("SaveToken", token, o)
        /\ okTok' = IF o.err = ErrNil THEN <<token, now>>
                    ELSE IF token = "" THEN okTok ELSE <<>>
        /\ okKey' = IF o.err = ErrNil \/ token = "" THEN okKey ELSE <<>>
        /\ stale' = (stale /\ o.err # ErrNil)
        /\ sole' = (sole /\ o.err # ErrWrite)
        /\ UNCHANGED <<now, ticks, foreign, concVars>>

DoLoadToken ==
    LET o == LoadToken(mem, file, now)
    IN  /\ mem' = o.mem
        /\ file' = o.file
        /\ res' = Res("LoadToken", "", o)
        /\ stale' = (stale \/ o.err = ErrTokenExpired)
        /\ sole' = (sole /\ o.err # ErrRead)
        /\ UNCHANGED <<now, ticks, okTok, okKey, foreign, concVars>>

DoSavePrivateKey(k) ==
    LET o == SavePrivateKey(mem, file, k)
    IN  /\ mem' = o.mem
        /\ file' = o.file
        /\ res' = Res("SavePrivateKey", k, o)
        /\ okKey' = IF o.err = ErrNil THEN <<k>>
                    ELSE IF o.err = ErrInvalidKeyFormat THEN okKey ELSE <<>>
        /\ okTok' = IF o.err \in {ErrNil, ErrInvalidKeyFormat} THEN okTok ELSE <<>>
        /\ sole' = (sole /\ o.err # ErrWrite)
        /\ UNCHANGED <<now, ticks, foreign, stale, concVars>>

DoLoadPrivateKey ==
    LET o == LoadPrivateKey(mem, file)
    IN  /\ mem' = o.mem
        /\ file' = o.file
        /\ res' = Res("LoadPrivateKey", "", o)
        /\ sole' = (sole /\ o.err # ErrRead)
        /\ UNCHANGED <<now, ticks, okTok, okKey, foreign, stale, concVars>>

DoGetPrivateKeyHex ==
    LET o == GetPrivateKeyHex(mem, file)
    IN  /\ mem' = o.mem
        /\ file' = o.file
        /\ res' = Res("GetPrivateKeyHex", "", o)
        /\ sole' = (sole /\ o.err # ErrRead)
        /\ UNCHANGED <<now, ticks, okTok, okKey, foreign, stale, concVars>>

---------------------------------------------------------------------------
(* The environment: the clock and the other parties that touch the file *)

Tick(d) ==
    /\ ticks < MaxTicks
    /\ now' = now + d
    /\ ticks' = ticks + 1
    /\ res' = NoRes("Tick")
    /\ UNCHANGED <<mem, file, okTok, okKey, foreign, stale, sole, concVars>>

Doc(tok, key, at) ==
    [wellformed |-> TRUE, auth_token |-> tok, private_key |-> key, created_at |-> at]

\* what another writer may leave in the file
ExternalFiles ==
    { Malformed,
      Doc(<<>>, <<>>, <<>>),
      Doc(<<>>, <<"0a">>, <<>>),
      Doc(<<"t1">>, <<>>, <<>>),
      Doc(<<"t2">>, <<"0A">>, <<NowStart>>),
      Doc(<<"">>, <<"zz">>, <<0>>) }

ExternalWrite(data) ==
    /\ file' = <<[mode |-> DefaultFileMode, data |-> data]>>
    /\ res' = NoRes("External")
    /\ okTok' = <<>>
    /\ okKey' = <<>>
    /\ foreign' = TRUE
    /\ stale' = FALSE
    /\ sole' = FALSE
    /\ UNCHANGED <<mem, now, ticks, concVars>>

ExternalRemove ==
    /\ file # <<>>
    /\ file' = <<>>
    /\ res' = NoRes("External")
    /\ okTok' = <<>>
    /\ okKey' = <<>>
    /\ stale' = FALSE
    /\ UNCHANGED <<mem, now, ticks, foreign, sole, concVars>>

ExternalChmod(mode) ==
    /\ file # <<>>
    /\ file[1].mode # mode
    /\ file' = <<[file[1] EXCEPT !.mode = mode]>>
    /\ res' = NoRes("External")
    /\ okTok' = <<>>
    /\ okKey' = <<>>
    /\ UNCHANGED <<mem, now, ticks, foreign, stale, sole, concVars>>

Next ==
    \/ NewKeystore
    \/ \E token \in TokenInputs : DoSaveToken(token)
    \/ DoLoadToken
    \/ \E k \in KeyInputs : DoSavePrivateKey(k)
    \/ DoLoadPrivateKey
    \/ DoGetPrivateKeyHex
    \/ \E d \in {1, TokenExpirySeconds} : Tick(d)
    \/ \E data \in ExternalFiles : ExternalWrite(data)
    \/ ExternalRemove
    \/ \E mode \in {0, DefaultFileMode} : ExternalChmod(mode)

Spec == Init /\ [][Next]_vars

---------------------------------------------------------------------------
(* Concurrent use: each thread runs one call on the shared Store, one      *)
(* statement of src/keystore.go at a time.  The Store has no lock.         *)

Goto(t, label) == pc' = [pc EXCEPT ![t] = label]

\* the call returns: its results are kept in the thread's locals
Return(t, val, key, err) ==
    /\ pc' = [pc EXCEPT ![t] = "done"]
    /\ loc' = [loc EXCEPT ![t] = [@ EXCEPT !.val = val, !.key = key, !.err = err]]

CBegin(t, op, arg) ==
    /\ pc[t] = "idle"
    /\ call' = [call EXCEPT ![t] = [op |-> op, arg |-> arg]]
    /\ Goto(t, CASE op = "SaveToken" -> "checkToken"
                 [] op = "SavePrivateKey" -> "checkKey"
                 [] OTHER -> "read")
    /\ UNCHANGED <<seqVars, loc>>

\* SaveToken, line 77
CCheckToken(t) ==
    /\ pc[t] = "checkToken"
    /\ IF call[t].arg = "" THEN Return(t, "", 0, ErrEmptyToken)
       ELSE Goto(t, "assignToken") /\ UNCHANGED loc
    /\ UNCHANGED <<seqVars, call>>

\* SaveToken, line 81
CAssignToken(t) ==
    /\ pc[t] = "assignToken"
    /\ mem' = [mem EXCEPT !.AuthToken = call[t].arg]
    /\ Goto(t, "assignCreatedAt")
    /\ UNCHANGED <<file, now, ticks, res, okTok, okKey, foreign, stale, sole, call, loc>>

\* SaveToken, line 82
CAssignCreatedAt(t) ==
    /\ pc[t] = "assignCreatedAt"
    /\ mem' = [mem EXCEPT !.CreatedAt = now]
    /\ Goto(t, "marshal")
    /\ UNCHANGED <<file, now, ticks, res, okTok, okKey, foreign, stale, sole, call, loc>>

\* SavePrivateKey, line 104
CCheckKey(t) ==
    /\ pc[t] = "checkKey"
    /\ IF HexToECDSA(call[t].arg).err # ErrNil
       THEN Return(t, "", 0, ErrInvalidKeyFormat)
       ELSE Goto(t, "assignKey") /\ UNCHANGED loc
    /\ UNCHANGED <<seqVars, call>>

\* SavePrivateKey, line 108
CAssignKey(t) ==
    /\ pc[t] = "assignKey"
    /\ mem' = [mem EXCEPT !.PrivateKey = call[t].arg]
    /\ Goto(t, "marshal")
    /\ UNCHANGED <<file, now, ticks, res, okTok, okKey, foreign, stale, sole, call, loc>>

\* save, line 137
CMarshal(t) ==
    /\ pc[t] = "marshal"
    /\ loc' = [loc EXCEPT ![t].data = Marshal(mem)]
    /\ Goto(t, "truncate")
    /\ UNCHANGED <<seqVars, call>>

\* save, line 142: os.WriteFile opens the file with O_CREATE|O_TRUNC ...
CTruncate(t) ==
    /\ pc[t] = "truncate"
    /\ LET w == WriteFile(file, Malformed, DefaultFileMode)
       IN  IF w.err # ErrNil
           THEN Return(t, "", 0, ErrWrite) /\ UNCHANGED file
           ELSE file' = w.file /\ Goto(t, "write") /\ UNCHANGED loc
    /\ UNCHANGED <<mem, now, ticks, res, okTok, okKey, foreign, stale, sole, call>>

\* save, line 142: ... and then writes the data
CWrite(t) ==
    /\ pc[t] = "write"
    /\ file # <<>>
    /\ file' = <<[file[1] EXCEPT !.data = loc[t].data]>>
    /\ Return(t, "", 0, ErrNil)
    /\ UNCHANGED <<mem, now, ticks, res, okTok, okKey, foreign, stale, sole, call>>

\* load, lines 150-156
CRead(t) ==
    /\ pc[t] = "read"
    /\ LET r == ReadFile(file)
       IN  IF r.err = "ENOENT" THEN Return(t, "", 0, ErrNoKeystore)
           ELSE IF r.err # ErrNil THEN Return(t, "", 0, ErrRead)
           ELSE /\ loc' = [loc EXCEPT ![t].data = r.data]
                /\ Goto(t, "unmarshal")
    /\ UNCHANGED <<seqVars, call>>

\* load, lines 158-162
CUnmarshal(t) ==
    /\ pc[t] = "unmarshal"
    /\ LET u == Unmarshal(loc[t].data, mem)
       IN  IF u.err # ErrNil
           THEN Return(t, "", 0, u.err) /\ UNCHANGED mem
           ELSE /\ mem' = u.mem
                /\ Goto(t, IF call[t].op = "LoadToken" THEN "testToken" ELSE "testKey")
                /\ UNCHANGED loc
    /\ UNCHANGED <<file, now, ticks, res, okTok, okKey, foreign, stale, sole, call>>

\* LoadToken, line 92
CTestToken(t) ==
    /\ pc[t] = "testToken"
    /\ IF mem.AuthToken = "" THEN Return(t, "", 0, ErrInvalidToken)
       ELSE Goto(t, "testExpiry") /\ UNCHANGED loc
    /\ UNCHANGED <<seqVars, call>>

\* LoadToken, line 96
CTestExpiry(t) ==
    /\ pc[t] = "testExpiry"
    /\ IF Expired(now, mem.CreatedAt) THEN Return(t, "", 0, ErrTokenExpired)
       ELSE Goto(t, "returnToken") /\ UNCHANGED loc
    /\ UNCHANGED <<seqVars, call>>

\* LoadToken, line 100
CReturnToken(t) ==
    /\ pc[t] = "returnToken"
    /\ Return(t, mem.AuthToken, 0, ErrNil)
    /\ UNCHANGED <<seqVars, call>>

\* LoadPrivateKey, line 117; GetPrivateKeyHex, line 129
CTestKey(t) ==
    /\ pc[t] = "testKey"
    /\ IF mem.PrivateKey = "" THEN Return(t, "", 0, ErrNoPrivateKey)
       ELSE Goto(t, "returnKey") /\ UNCHANGED loc
    /\ UNCHANGED <<seqVars, call>>

\* LoadPrivateKey, line 121; GetPrivateKeyHex, line 133
CReturnKey(t) ==
    /\ pc[t] = "returnKey"
    /\ IF call[t].op = "LoadPrivateKey"
       THEN LET k == HexToECDSA(mem.PrivateKey) IN Return(t, "", k.D, k.err)
       ELSE Return(t, mem.PrivateKey, 0, ErrNil)
    /\ UNCHANGED <<seqVars, call>>

NextConc ==
    \E t \in Threads :
        \/ \E token \in TokenInputs : CBegin(t, "SaveToken", token)
        \/ \E k \in KeyInputs : CBegin(t, "SavePrivateKey", k)
        \/ \E op \in {"LoadToken", "LoadPrivateKey", "GetPrivateKeyHex"} : CBegin(t, op, "")
        \/ CCheckToken(t)
        \/ CAssignToken(t)
        \/ CAssignCreatedAt(t)
        \/ CCheckKey(t)
        \/ CAssignKey(t)
        \/ CMarshal(t)
        \/ CTruncate(t)
        \/ CWrite(t)
        \/ CRead(t)
        \/ CUnmarshal(t)
        \/ CTestToken(t)
        \/ CTestExpiry(t)
        \/ CReturnToken(t)
        \/ CTestKey(t)
        \/ CReturnKey(t)

SpecConc == Init /\ [][NextConc]_vars

\* the call c run alone on the Store value s and the file f at time t
Apply(c, s, f, t) ==
    CASE c.op = "SaveToken" -> SaveToken(s, f, c.arg, t)
      [] c.op = "LoadToken" -> LoadToken(s, f, t)
      [] c.op = "SavePrivateKey" -> SavePrivateKey(s, f, c.arg)
      [] c.op = "LoadPrivateKey" -> LoadPrivateKey(s, f)
      [] OTHER -> GetPrivateKeyHex(s, f)

---------------------------------------------------------------------------
(* Vocabulary of the properties *)

LoadOps == {"LoadToken", "LoadPrivateKey", "GetPrivateKeyHex"}

\* the file exists, can be read and parses
FileLoads == file # <<>> /\ OwnerCanRead(file) /\ file[1].data.wellformed

\* the value the file holds for a field, def when the file omits it
FileField(field, def) == IF field = <<>> THEN def ELSE field[1]

\* C1: a SaveToken(T) that returned nil, followed by LoadToken() on the same
\* Store with no other party touching the file and the clock at most the
\* threshold past the save, returns T and no error.
C1_SaveThenLoadToken ==
    (res.op = "LoadToken" /\ okTok # <<>> /\ now - okTok[2] <= 3600)
        => (res.err = ErrNil /\ res.val = okTok[1] /\ res.val # "")

C1_Witness ==
    /\ res.op = "LoadToken"
    /\ okTok = <<"t2", now - 3600>>
    /\ res.val = "t2"
    /\ foreign
    /\ mem.PrivateKey # ""

\* C2: for a loaded record with a non-empty token, LoadToken() returns
\* ErrTokenExpired exactly when now - CreatedAt > 3600; at 3600 it returns
\* the token, at 3601 ErrTokenExpired.
C2_ExpiryBoundary ==
    (res.op = "LoadToken" /\ res.err \notin LoadErrors /\ mem.AuthToken # "")
        => /\ res.err = ErrTokenExpired <=> now - mem.CreatedAt > 3600
           /\ res.err # ErrTokenExpired => (res.err = ErrNil /\ res.val = mem.AuthToken)
           /\ res.err = ErrTokenExpired => res.val = ""
           /\ (FileLoads /\ file[1].data.created_at # <<>>)
                => (res.err = ErrTokenExpired
                      <=> now - file[1].data.created_at[1] >= 3601)

C2_Witness ==
    /\ res.op = "LoadToken"
    /\ res.err = ErrNil
    /\ res.val # ""
    /\ now - mem.CreatedAt = 3600

\* C3: SaveToken("") returns ErrEmptyToken in every state and leaves the
\* file and the three fields of the Store as they were.
C3_EmptyTokenRejected ==
    [][(res'.op = "SaveToken" /\ res'.arg = "")
         => (res'.err = ErrEmptyToken /\ mem' = mem /\ file' = file)]_vars

C3_Witness ==
    /\ res.op = "SaveToken"
    /\ res.arg = ""
    /\ res.err = ErrEmptyToken
    /\ file # <<>>
    /\ mem.AuthToken # ""

\* C4: SavePrivateKey(k) with a k the parser rejects returns the invalid
\* key format error and leaves the Store and the file as they were; with
\* no other writer, the key in the file is always one the parser accepts.
C4_InvalidKeyNeverWritten ==
    /\ [][(res'.op = "SavePrivateKey" /\ HexToECDSA(res'.arg).err # ErrNil)
            => (res'.err = ErrInvalidKeyFormat /\ mem' = mem /\ file' = file)]_vars
    /\ []((~foreign /\ file # <<>> /\ file[1].data.private_key # <<>>)
            => HexToECDSA(file[1].data.private_key[1]).err = ErrNil)

C4_Witness ==
    /\ res.op = "SavePrivateKey"
    /\ res.arg = "zz"
    /\ res.err = ErrInvalidKeyFormat
    /\ ~foreign
    /\ file # <<>>
    /\ file[1].data.private_key = <<"1b">>
    /\ mem.PrivateKey = "1b"

\* C5: while the file does not exist, LoadToken, LoadPrivateKey and
\* GetPrivateKeyHex return ErrNoKeystore whatever the Store holds.
C5_MissingFileNoKeystore ==
    (res.op \in LoadOps /\ file = <<>>)
        => (res.err = ErrNoKeystore /\ res.val = "" /\ res.key = 0)

C5_Witness ==
    /\ res.op = "LoadToken"
    /\ file = <<>>
    /\ res.err = ErrNoKeystore
    /\ mem.AuthToken # ""
    /\ mem.PrivateKey # ""

\* C6 (as amended): after SavePrivateKey(K) returned nil, GetPrivateKeyHex()
\* returns K unchanged and LoadPrivateKey() returns the key the parser
\* produces for K, whose re-encoding is K in lower-case hex digits.
C6_KeyRoundTrip ==
    okKey # <<>>
        => /\ res.op = "GetPrivateKeyHex" => (res.err = ErrNil /\ res.val = okKey[1])
           /\ res.op = "LoadPrivateKey"
                => /\ res.err = ErrNil
                   /\ res.key # 0
                   /\ res.key = HexToECDSA(okKey[1]).D
                   /\ EncodeHex(res.key) = ToLower(okKey[1])

C6_Witness ==
    /\ res.op = "LoadPrivateKey"
    /\ okKey = <<"0A">>
    /\ res.key = 10
    /\ res.err = ErrNil

\* C6 (as stated): ... LoadPrivateKey() returns a key whose re-encoding is K.
C6_ReencodeGivesK ==
    (okKey # <<>> /\ res.op = "LoadPrivateKey" /\ res.err = ErrNil /\ res.key # 0)
        => EncodeHex(res.key) = okKey[1]

\* C7: after a SaveToken(T) and a SavePrivateKey(K) that both returned nil
\* on one Store, in either order, the file holds both fields, LoadToken()
\* (within the threshold) returns T and the key reads return K.
C7_BothFieldsKept ==
    (okTok # <<>> /\ okKey # <<>>)
        => /\ file # <<>>
           /\ file[1].data.auth_token = <<okTok[1]>>
           /\ file[1].data.private_key = <<okKey[1]>>
           /\ file[1].data.created_at = <<okTok[2]>>
           /\ (res.op = "LoadToken" /\ now - okTok[2] <= 3600)
                => (res.err = ErrNil /\ res.val = okTok[1])
           /\ res.op = "GetPrivateKeyHex" => (res.err = ErrNil /\ res.val = okKey[1])
           /\ res.op = "LoadPrivateKey"
                => (res.err = ErrNil /\ res.key = KeyScalar[okKey[1]])

C7_Witness ==
    /\ okTok # <<>>
    /\ okKey # <<>>
    /\ res.op = "LoadToken"
    /\ res.err = ErrNil
    /\ now > okTok[2]

\* C8: after a load that returned no error, every field of the Store is
\* what the file holds, a field the file omits being empty or zero.
C8_LoadOverwritesEveryField ==
    (res.op \in LoadOps /\ res.err \notin LoadErrors)
        => /\ mem.AuthToken = FileField(file[1].data.auth_token, "")
           /\ mem.PrivateKey = FileField(file[1].data.private_key, "")
           /\ mem.CreatedAt = FileField(file[1].data.created_at, 0)

\* C9: whenever the file exists, parses and holds no token, LoadToken()
\* returns ErrInvalidToken, and whenever it holds no key, LoadPrivateKey()
\* and GetPrivateKeyHex() return ErrNoPrivateKey.
C9_EmptyFieldErrors ==
    FileLoads
        => /\ (res.op = "LoadToken" /\ FileField(file[1].data.auth_token, "") = "")
                => res.err = ErrInvalidToken
           /\ (res.op \in {"LoadPrivateKey", "GetPrivateKeyHex"}
                 /\ FileField(file[1].data.private_key, "") = "")
                => res.err = ErrNoPrivateKey

\* what thread t's call returned
Returned(t) == [val |-> loc[t].val, key |-> loc[t].key, err |-> loc[t].err]

Returns(o) == [val |-> o.val, key |-> o.key, err |-> o.err]

\* the two calls run one after the other, a first, on a new Store with no file
RunInOrder(a, b) ==
    LET o1 == Apply(call[a], EmptyStore, <<>>, now)
        o2 == Apply(call[b], o1.mem, o1.file, now)
    IN  /\ mem = o2.mem
        /\ file = o2.file
        /\ Returned(a) = Returns(o1)
        /\ Returned(b) = Returns(o2)

\* C10: operations on one Store are thread-safe: when two threads have run
\* their calls concurrently, the Store, the file and what each call
\* returned are those of the two calls run in some sequential order.
C10_ThreadSafe ==
    (\A t \in Threads : pc[t] = "done")
        => \E a \in Threads : \E b \in Threads \ {a} : RunInOrder(a, b)

\* a SavePrivateKey that returned nil whose key is not in the file once
\* both calls have returned, the other call being a SaveToken
C10_LostUpdate ==
    /\ \A t \in Threads : pc[t] = "done" /\ loc[t].err = ErrNil
    /\ call[1] = [op |-> "SaveToken", arg |-> "t1"]
    /\ call[2] = [op |-> "SavePrivateKey", arg |-> "1b"]
    /\ file[1].data.auth_token = <<"t1">>
    /\ file[1].data.private_key = <<>>

\* C11: constructing a Store neither reads nor creates the file: the file
\* is as it was, the record in memory is empty, and when there is no file
\* the first LoadToken() returns ErrNoKeystore.
C11_ConstructionLeavesFile ==
    /\ [][res'.op = "NewKeystore" => (file' = file /\ mem' = EmptyStore)]_vars
    /\ [][(res.op = "NewKeystore" /\ res'.op = "LoadToken" /\ file = <<>>)
            => (res'.err = ErrNoKeystore /\ file' = <<>> /\ mem' = EmptyStore)]_vars

C11_Witness ==
    /\ res.op = "NewKeystore"
    /\ mem = EmptyStore
    /\ file # <<>>
    /\ file[1].data.auth_token # <<>>
    /\ ~foreign

\* C12: every mutation is a read-modify-write of the whole file: the
\* record a save writes is the record that was on disk with only the
\* fields the call sets changed, so a key on disk survives a SaveToken by
\* a freshly constructed Store (and a token a SavePrivateKey).
C12_ReadModifyWrite ==
    [][(~foreign /\ res'.err = ErrNil /\ file # <<>> /\ file[1].data.wellformed)
         => /\ res'.op = "SaveToken"
                 => file'[1].data.private_key = file[1].data.private_key
            /\ res'.op = "SavePrivateKey"
                 => /\ file'[1].data.auth_token = file[1].data.auth_token
                    /\ file'[1].data.created_at = file[1].data.created_at]_vars

\* C13: CreatedAt changes only when a token is written: a SaveToken that
\* returns nil sets it to the current time, and SavePrivateKey, successful
\* or not, leaves AuthToken and CreatedAt as they were in memory and in
\* the file.
C13_KeySaveKeepsStamp ==
    /\ [][(res'.op = "SaveToken" /\ res'.err = ErrNil)
            => (mem'.CreatedAt = now /\ file'[1].data.created_at = <<now>>)]_vars
    /\ [][(~foreign /\ res'.op = "SavePrivateKey")
            => /\ mem'.AuthToken = mem.AuthToken
               /\ mem'.CreatedAt = mem.CreatedAt
               /\ (file # <<>> /\ file[1].data.wellformed /\ file' # file)
                    => /\ FileField(file'[1].data.auth_token, "")
                            = FileField(file[1].data.auth_token, "")
                       /\ FileField(file'[1].data.created_at, 0)
                            = FileField(file[1].data.created_at, 0)]_vars

\* C14: the private key never expires: what LoadPrivateKey() and
\* GetPrivateKeyHex() return is decided by the loaded key alone, not by
\* CreatedAt or the clock; a saved key is returned after the token of the
\* record has expired and from a record that holds no token.
C14_KeyNeverExpires ==
    /\ (res.op \in {"LoadPrivateKey", "GetPrivateKeyHex"} /\ FileLoads)
         => /\ res.err # ErrTokenExpired
            /\ mem.PrivateKey = "" <=> res.err = ErrNoPrivateKey
            /\ (res.op = "GetPrivateKeyHex" /\ mem.PrivateKey # "")
                 => (res.err = ErrNil /\ res.val = mem.PrivateKey)
            /\ (res.op = "LoadPrivateKey" /\ mem.PrivateKey \in DOMAIN KeyScalar)
                 => (res.err = ErrNil /\ res.key = KeyScalar[mem.PrivateKey])
    /\ (res.op \in {"LoadPrivateKey", "GetPrivateKeyHex"} /\ okKey # <<>>)
         => res.err = ErrNil

C14_Witness ==
    /\ res.op = "LoadPrivateKey"
    /\ res.err = ErrNil
    /\ res.key = 27
    /\ okKey = <<"1b">>
    /\ mem.AuthToken # ""
    /\ now - mem.CreatedAt > 3600

\* C15: LoadToken() applies its checks in a fixed order and returns the
\* first failure: ErrNoKeystore when the file is missing, else
\* ErrInvalidToken when the loaded token is empty (also when CreatedAt is
\* past the threshold), else ErrTokenExpired; it returns a non-empty token
\* only when none fails and the empty string with every error.
C15_LoadTokenCheckOrder ==
    res.op = "LoadToken"
        => /\ file = <<>> => res.err = ErrNoKeystore
           /\ (FileLoads /\ mem.AuthToken = "") => res.err = ErrInvalidToken
           /\ (FileLoads /\ mem.AuthToken # "" /\ now - mem.CreatedAt > 3600)
                => res.err = ErrTokenExpired
           /\ (FileLoads /\ mem.AuthToken # "" /\ now - mem.CreatedAt <= 3600)
                => res.err = ErrNil
           /\ res.err = ErrNil => (res.val # "" /\ res.val = mem.AuthToken /\ FileLoads)
           /\ res.err # ErrNil => res.val = ""
           /\ res.err \in {ErrNil, ErrInvalidToken, ErrTokenExpired} \cup LoadErrors

C15_Witness ==
    /\ res.op = "LoadToken"
    /\ res.err = ErrInvalidToken
    /\ mem.AuthToken = ""
    /\ now - mem.CreatedAt > 3600

\* C16: with a non-decreasing clock and no other writer on the file, once
\* LoadToken has returned ErrTokenExpired on a Store no later LoadToken on
\* that Store returns a token until a SaveToken with a non-empty token has
\* returned nil
C16_ExpiredStaysExpired ==
    (stale /\ ~foreign /\ res.op = "LoadToken") => res.err # ErrNil

\* C17: a file that only Store values have written holds created_at exactly
\* when it holds auth_token, and neither is the zero value
C17_StampIffToken ==
    (~foreign /\ file # <<>>)
        => /\ file[1].data.wellformed
           /\ (file[1].data.created_at = <<>>) <=> (file[1].data.auth_token = <<>>)
           /\ file[1].data.created_at # <<0>>
           /\ file[1].data.auth_token # <<"">>

\* a record that SavePrivateKey wrote and that holds a token and its stamp
C17_Witness ==
    /\ ~foreign
    /\ res.op = "SavePrivateKey"
    /\ res.err = ErrNil
    /\ file # <<>>
    /\ file[1].data.auth_token \in {<<tok>> : tok \in Tokens}
    /\ file[1].data.created_at # <<>>
    /\ file[1].data.private_key # <<>>

PublicOps == LoadOps \cup {"SaveToken", "SavePrivateKey"}

\* C18: for one Store value that is the only writer of its file and that has
\* met no read or write failure, after every method call that has returned
\* while the file exists the file holds the record of the Store value
C18_MemoryEqualsDisk ==
    (sole /\ res.op \in PublicOps /\ file # <<>>)
        => /\ file[1].data = Marshal(mem)
           /\ Unmarshal(file[1].data, EmptyStore).mem = mem

\* after a LoadToken that found the token expired, with token and key on file
C18_Witness ==
    /\ sole
    /\ res.op = "LoadToken"
    /\ res.err = ErrTokenExpired
    /\ file # <<>>
    /\ mem.AuthToken # ""
    /\ mem.PrivateKey # ""

\* C19: a SaveToken or SavePrivateKey that returns an error leaves the Store
\* value as it was before the call
C19_FailedSaveKeepsMemory ==
    [][(res'.op \in {"SaveToken", "SavePrivateKey"} /\ res'.err # ErrNil)
         => mem' = mem]_vars

===========================================================================
